---- MODULE Spec2Model ----
(***************************************************************************)
(* Model of the server-side protection core of the OAuth tester: the       *)
(* in-memory rate limiter, the SSRF endpoint validator and the request     *)
(* handlers that compose them.                                             *)
(***************************************************************************)
EXTENDS Integers, Sequences, FiniteSets, TLC

VARIABLES
    store,      \* rate limiter: Map<string, RateLimitEntry>, a function on its keys
    now,        \* Date.now(), in milliseconds
    nextSweep,  \* the time the setInterval sweep is next due
    last,       \* the last checkRateLimit call: its client key, time and result
    nticks,     \* number of clock steps taken so far
    winCalls,   \* per client key: calls made in the client's current window
    winEnd,     \* per client key: first call of the current window + WINDOW_MS
    obs         \* an observed interval of WINDOW_MS: its client key, its start
                \* and the number of Allowed calls of that client inside it

VARIABLES
    vpc,        \* validateTokenEndpoint: "idle", "lookup" (awaiting dns lookup), "done"
    vurl,       \* the url argument of the call
    dnsAnswer,  \* what name resolution answers for the url's hostname during the call
    verdict,    \* the value the call resolved to
    lookups     \* the hostnames passed to dns lookup during the call

VARIABLES
    hpc,        \* request handler: "idle", the await it is suspended at, or "done"
    req,        \* the request being handled: its handler, event and inputs
    resp,       \* the response of the request
    trace,      \* what the request has done so far: the verdicts its handler got
                \* from validateTokenEndpoint and the outbound fetches it issued
    work,       \* what the handler has done with the request itself: "body" once
                \* it has read the body, "input" once it has tested an input
    call        \* the outbound call of the handler: whether its abort timer is
                \* armed, the time the timer is set for, and the response once
                \* its headers are there

VARIABLES
    bpc,        \* browser: "idle", the await exchangeCodeForTokens is suspended
                \* at, or what it has done last
    session,    \* session.value of useOAuthState
    storage,    \* localStorage under STORAGE_KEY: no session or one
    page,       \* the callback page: its status, and the query and the hash
                \* fragment of the url it was opened with
    sent,       \* the requests the browser has sent in the token exchange
    exchange    \* the answer of the server proxy and what
                \* exchangeCodeForTokens returned

rlVars == <<store, now, nextSweep, last, nticks, winCalls, winEnd, obs>>

vVars == <<vpc, vurl, dnsAnswer, verdict, lookups>>

hVars == <<hpc, req, resp, trace, work, call>>

bVars == <<bpc, session, storage, page, sent, exchange>>

vars == <<rlVars, vVars, hVars, bVars>>

-----------------------------------------------------------------------------
(* Bounds of the model *)

\* A client makes no further call in a window in which it has made MaxOver
\* calls beyond the budget; the clients without any address header, which
\* share the key "unknown", make at most MaxUnknown calls in a window; the
\* clock takes at most MaxTicks steps.
MaxOver == 2
MaxUnknown == 2
MaxTicks == 2

\* A name resolves to at most MaxAddrs addresses.
MaxAddrs == 2
MaxStall == 2       \* timeout periods a provider is watched for during one call

\* The short error messages are the strings of at most MaxText characters.
MaxText == 4

-----------------------------------------------------------------------------
(* JavaScript strings *)

None == "<none>"

CharAt(s, i) == SubSeq(s, i, i)

startsWith(s, p) == Len(s) >= Len(p) /\ SubSeq(s, 1, Len(p)) = p

RECURSIVE IndexWithin(_, _, _, _)
\* The first index in lo..hi at which character c occurs in s, or 0.
IndexWithin(s, c, lo, hi) ==
    IF lo > hi THEN 0
    ELSE IF lo = hi THEN (IF CharAt(s, lo) = c THEN lo ELSE 0)
    ELSE LET mid == (lo + hi) \div 2
             first == IndexWithin(s, c, lo, mid)
         IN  IF first # 0 THEN first ELSE IndexWithin(s, c, mid + 1, hi)

\* The first index >= i at which character c occurs in s, or 0.
IndexFrom(s, c, i) == IndexWithin(s, c, i, Len(s))

RECURSIVE split(_, _)
\* String.prototype.split on a one-character separator.
split(s, c) ==
    LET i == IndexFrom(s, c, 1)
    IN  IF i = 0 THEN <<s>>
        ELSE <<SubSeq(s, 1, i - 1)>> \o split(SubSeq(s, i + 1, Len(s)), c)

RECURSIVE trimStart(_)
trimStart(s) ==
    IF Len(s) > 0 /\ CharAt(s, 1) = " " THEN trimStart(SubSeq(s, 2, Len(s))) ELSE s

RECURSIVE trimEnd(_)
trimEnd(s) ==
    IF Len(s) > 0 /\ CharAt(s, Len(s)) = " " THEN trimEnd(SubSeq(s, 1, Len(s) - 1)) ELSE s

trim(s) == trimEnd(trimStart(s))

-----------------------------------------------------------------------------
(* Rate limiter *)

WINDOW_MS == 60000
MAX_REQUESTS == 30
SWEEP_INTERVAL_MS == 60000

\* The clock steps the model takes: one millisecond and one window, so that
\* a time exactly at resetAt and the first millisecond after it are reached.
TickSteps == {1, WINDOW_MS}

\* The request headers and peer address getClientIp reads.
Events ==
    { [xff |-> "1.1.1.1, 2.2.2.2", realIp |-> "3.3.3.3", remote |-> "4.4.4.4"],
      [xff |-> None, realIp |-> "1.1.1.1", remote |-> "4.4.4.4"],
      [xff |-> None, realIp |-> None, remote |-> "1.1.1.1"],
      [xff |-> None, realIp |-> None, remote |-> None] }

getClientIp(event) ==
    IF event.xff # None /\ event.xff # ""
    THEN trim(split(event.xff, ",")[1])
    ELSE IF event.realIp # None THEN event.realIp
    ELSE IF event.remote # None THEN event.remote
    ELSE "unknown"

\* getClientIp is a pure function of the event: its table over Events.
ClientIpOf == [e \in Events |-> getClientIp(e)]

ClientKeys == { ClientIpOf[e] : e \in Events }

\* The events that carry a client address.
AddressedEvents == { e \in Events : ClientIpOf[e] # "unknown" }

\* The number of calls per window the model lets a client key make.
CallCap(ip) == IF ip = "unknown" THEN MaxUnknown ELSE MAX_REQUESTS + MaxOver

\* Math.ceil(a / b) for a >= 0, b > 0.
CeilDiv(a, b) == (a + b - 1) \div b

Null == [limited |-> FALSE, retryAfterSeconds |-> 0]
Limited(n) == [limited |-> TRUE, retryAfterSeconds |-> n]

\* A store with one entry object shared by all its keys.
MapSet_shared(m, k, v) == [x \in (DOMAIN m) \cup {k} |-> v]

MapSet(m, k, v) == [x \in (DOMAIN m) \cup {k} |-> IF x = k THEN v ELSE m[x]]
MapDelete(m, ks) == [x \in (DOMAIN m) \ ks |-> m[x]]
EmptyMap == [x \in {} |-> 0]

\* checkRateLimit with the budget test written >= instead of >.
checkRateLimit_ge(st, ip, t) ==
    IF ip \notin DOMAIN st \/ t > st[ip].resetAt
    THEN [store |-> MapSet(st, ip, [count |-> 1, resetAt |-> t + WINDOW_MS]),
          result |-> Null]
    ELSE LET entry == [count |-> st[ip].count + 1, resetAt |-> st[ip].resetAt]
         IN  [store |-> MapSet(st, ip, entry),
              result |-> IF entry.count >= MAX_REQUESTS
                         THEN Limited(CeilDiv(entry.resetAt - t, 1000))
                         ELSE Null]

\* checkRateLimit with a Limited call starting the window anew.
checkRateLimit_extend(st, ip, t) ==
    IF ip \notin DOMAIN st \/ t > st[ip].resetAt
    THEN [store |-> MapSet(st, ip, [count |-> 1, resetAt |-> t + WINDOW_MS]),
          result |-> Null]
    ELSE LET over == st[ip].count + 1 > MAX_REQUESTS
             entry == [count |-> st[ip].count + 1,
                       resetAt |-> IF over THEN t + WINDOW_MS ELSE st[ip].resetAt]
         IN  [store |-> MapSet(st, ip, entry),
              result |-> IF over
                         THEN Limited(CeilDiv(entry.resetAt - t, 1000))
                         ELSE Null]

\* checkRateLimit on the store st for client key ip at time t: the store
\* it leaves and the value it returns.
checkRateLimit(st, ip, t) ==
    IF ip \notin DOMAIN st \/ t > st[ip].resetAt
    THEN [store |-> MapSet(st, ip, [count |-> 1, resetAt |-> t + WINDOW_MS]),
          result |-> Null]
    ELSE LET entry == [count |-> st[ip].count + 1, resetAt |-> st[ip].resetAt]
         IN  [store |-> MapSet(st, ip, entry),
              result |-> IF entry.count > MAX_REQUESTS
                         THEN Limited(CeilDiv(entry.resetAt - t, 1000))
                         ELSE Null]

\* The entries of a sweep that deletes at resetAt already.
Expired_ge(st, t) == { k \in DOMAIN st : t >= st[k].resetAt }

\* The entries the periodic sweep deletes at time t.
Expired(st, t) == { k \in DOMAIN st : t > st[k].resetAt }

\* A sweep that deletes every entry.
sweep_all(st, t) == EmptyMap

sweep(st, t) == MapDelete(st, Expired(st, t))

-----------------------------------------------------------------------------
(* Endpoint validator *)

RECURSIVE toLowerCase(_)
toLowerCase(s) ==
    IF s = "" THEN ""
    ELSE LET c == CharAt(s, 1)
             i == IndexFrom("ABCDEFGHIJKLMNOPQRSTUVWXYZ", c, 1)
         IN  (IF i = 0 THEN c ELSE CharAt("abcdefghijklmnopqrstuvwxyz", i))
             \o toLowerCase(SubSeq(s, 2, Len(s)))

\* The value of a decimal digit, -1 for any other character.
DigitVal(c) == IndexFrom("0123456789", c, 1) - 1

RECURSIVE AllDigits(_)
AllDigits(s) ==
    s = "" \/ (DigitVal(CharAt(s, 1)) >= 0 /\ AllDigits(SubSeq(s, 2, Len(s))))

NaN == -1

RECURSIVE ParseDigits(_, _)
ParseDigits(s, acc) ==
    IF s = "" \/ DigitVal(CharAt(s, 1)) < 0 THEN acc
    ELSE ParseDigits(SubSeq(s, 2, Len(s)), 10 * acc + DigitVal(CharAt(s, 1)))

\* parseInt of a string without sign or leading blanks: the leading decimal
\* digits, NaN when there is none.
parseInt(s) ==
    IF s = "" \/ DigitVal(CharAt(s, 1)) < 0 THEN NaN ELSE ParseDigits(s, 0)

includes(seq, x) == \E i \in DOMAIN seq : seq[i] = x

\* The default port of the special schemes of the URL standard.
DefaultPort(scheme) ==
    CASE scheme = "https" -> 443
      [] scheme = "http" -> 80
      [] scheme = "ftp" -> 21
      [] OTHER -> NaN

BadUrl == [ok |-> FALSE, protocol |-> "", hostname |-> "", port |-> ""]

\* new URL(url) for the inputs of the model, which are either of the form
\* scheme://host[:port][/path] with a domain name or a dotted-quad host, or
\* no URL at all: ok is FALSE where the constructor throws.  The hostname
\* is lower-cased and a port equal to the scheme's default reads as "".
ParseUrl(url) ==
    LET i == IndexFrom(url, ":", 1)
        scheme == toLowerCase(SubSeq(url, 1, i - 1))
        rest == SubSeq(url, i + 1, Len(url))
        afterSlashes == SubSeq(rest, 3, Len(rest))
        j == IndexFrom(afterSlashes, "/", 1)
        authority == IF j = 0 THEN afterSlashes ELSE SubSeq(afterSlashes, 1, j - 1)
        k == IndexFrom(authority, ":", 1)
        host == IF k = 0 THEN authority ELSE SubSeq(authority, 1, k - 1)
        portText == IF k = 0 THEN "" ELSE SubSeq(authority, k + 1, Len(authority))
    IN  IF i <= 1 \/ ~startsWith(rest, "//") \/ host = "" THEN BadUrl
        ELSE IF IndexFrom(host, " ", 1) # 0 THEN BadUrl
        ELSE IF ~AllDigits(portText) THEN BadUrl
        ELSE IF portText # "" /\ parseInt(portText) > 65535 THEN BadUrl
        ELSE [ok |-> TRUE,
              protocol |-> scheme \o ":",
              hostname |-> toLowerCase(host),
              port |-> IF portText # "" /\ parseInt(portText) = DefaultPort(scheme)
                       THEN "" ELSE portText]

\* The port written in the url, before the parser drops a default one.
WrittenPort(url) ==
    LET rest == SubSeq(url, IndexFrom(url, ":", 1) + 3, Len(url))
        j == IndexFrom(rest, "/", 1)
        authority == IF j = 0 THEN rest ELSE SubSeq(rest, 1, j - 1)
        k == IndexFrom(authority, ":", 1)
    IN  IF k = 0 THEN "" ELSE SubSeq(authority, k + 1, Len(authority))

\* One segment of a dotted quad: 0..255 in decimal without a leading zero.
IsV4Seg(t) ==
    /\ Len(t) \in 1..3
    /\ AllDigits(t)
    /\ (Len(t) > 1 => CharAt(t, 1) # "0")
    /\ parseInt(t) <= 255

isIPv4(h) ==
    LET parts == split(h, ".")
    IN  Len(parts) = 4 /\ \A i \in 1..4 : IsV4Seg(parts[i])

RECURSIVE OnlyChars(_, _)
OnlyChars(s, allowed) ==
    s = "" \/ (IndexFrom(allowed, CharAt(s, 1), 1) # 0
               /\ OnlyChars(SubSeq(s, 2, Len(s)), allowed))

\* A textual IPv6 address, as far as the hostnames of the model go: hex
\* groups separated by colons, never the bracketed form URL.hostname gives.
isIPv6(h) ==
    /\ Len(split(h, ":")) \in 3..9
    /\ OnlyChars(h, "0123456789abcdefABCDEF:.")

\* net.isIP
isIP(h) == IF isIPv4(h) THEN 4 ELSE IF isIPv6(h) THEN 6 ELSE 0

\* The check of the 172. rule: the second octet lies in 16..31.
Check172(ip) ==
    LET parts == split(ip, ".")
        second == parseInt(IF Len(parts) >= 2 THEN parts[2] ELSE "0")
    IN  second >= 16 /\ second <= 31

BLOCKED_IP_RANGES ==
    << [prefix |-> "127.", description |-> "loopback", check |-> FALSE],
       [prefix |-> "10.", description |-> "private (10.x)", check |-> FALSE],
       [prefix |-> "192.168.", description |-> "private (192.168.x)", check |-> FALSE],
       [prefix |-> "172.", description |-> "private (172.16-31.x)", check |-> TRUE],
       [prefix |-> "169.254.", description |-> "link-local / cloud metadata", check |-> FALSE],
       [prefix |-> "::1", description |-> "IPv6 loopback", check |-> FALSE],
       [prefix |-> "::ffff:127.", description |-> "IPv6-mapped loopback", check |-> FALSE],
       [prefix |-> "fc", description |-> "IPv6 unique local", check |-> FALSE],
       [prefix |-> "fd", description |-> "IPv6 unique local", check |-> FALSE],
       [prefix |-> "fe80:", description |-> "IPv6 link-local", check |-> FALSE],
       [prefix |-> "100.100.100.200", description |-> "Alibaba Cloud metadata", check |-> FALSE] >>

RECURSIVE FirstRange(_, _, _)
\* The loop of isBlockedIp over the rules from index i on: the description
\* of the first rule that matches, None when no rule does.
FirstRange(ranges, normalized, i) ==
    IF i > Len(ranges) THEN None
    ELSE IF startsWith(normalized, ranges[i].prefix)
            /\ (ranges[i].check => Check172(normalized))
         THEN ranges[i].description
         ELSE FirstRange(ranges, normalized, i + 1)

\* isBlockedIp without its test of the unspecified addresses.
isBlockedIp_tableOnly(ip) == FirstRange(BLOCKED_IP_RANGES, toLowerCase(ip), 1)

\* isBlockedIp: the description of the range that blocks ip, None (null)
\* when ip is not blocked.
isBlockedIp(ip) ==
    LET found == FirstRange(BLOCKED_IP_RANGES, toLowerCase(ip), 1)
    IN  IF found # None THEN found
        ELSE IF ip = "0.0.0.0" \/ ip = "::" THEN "unspecified address"
        ELSE None

Valid == [valid |-> TRUE, reason |-> ""]
Invalid(reason) == [valid |-> FALSE, reason |-> reason]

allowedPorts == <<"", "80", "443", "3000", "8080", "8443">>

\* The scheme test with http let through as well.
SchemeRejected_http(parsed) ==
    /\ parsed.protocol # "https:" /\ parsed.protocol # "http:"
    /\ parsed.hostname # "localhost"
    /\ parsed.hostname # "127.0.0.1"

\* "Must be HTTPS (except localhost for dev)"
SchemeRejected(parsed) ==
    /\ parsed.protocol # "https:"
    /\ parsed.hostname # "localhost"
    /\ parsed.hostname # "127.0.0.1"

\* The port test as it would be after the localhost short-circuit.
PortRejected_afterLocal(parsed) ==
    /\ parsed.port # "" /\ ~includes(allowedPorts, parsed.port)
    /\ parsed.hostname # "localhost"
    /\ parsed.hostname # "127.0.0.1"

\* "Block non-standard ports"
PortRejected(parsed) == parsed.port # "" /\ ~includes(allowedPorts, parsed.port)

\* The localhost short-circuit left out.
LocalShortcut_never(parsed) == FALSE

\* "Allow localhost for local development without DNS check"
LocalShortcut(parsed) == parsed.hostname = "localhost" \/ parsed.hostname = "127.0.0.1"

\* validateTokenEndpoint up to its await, from the parsed url on: the
\* verdict it returns at once (pending FALSE), or the hostname it passes to
\* dns lookup (pending TRUE).
validateParsed(parsed) ==
    LET Return(v) == [pending |-> FALSE, verdict |-> v, hostname |-> ""]
    IN  IF ~parsed.ok THEN Return(Invalid("Invalid URL format"))
        ELSE IF SchemeRejected(parsed)
        THEN Return(Invalid("Token endpoint must use HTTPS"))
        ELSE IF PortRejected(parsed)
        THEN Return(Invalid("Port " \o parsed.port \o " is not allowed"))
        ELSE IF LocalShortcut(parsed)
        THEN Return(Valid)
        ELSE IF isIP(parsed.hostname) # 0
        THEN LET blocked == isBlockedIp(parsed.hostname)
             IN  IF blocked # None
                 THEN Return(Invalid("Blocked: " \o blocked \o " address"))
                 ELSE Return(Valid)
        ELSE [pending |-> TRUE, verdict |-> Valid, hostname |-> parsed.hostname]

validateSync(url) == validateParsed(ParseUrl(url))

RECURSIVE CheckResults(_, _)
\* The loop over the lookup results from index i on.
CheckResults(results, i) ==
    IF i > Len(results) THEN Valid
    ELSE LET blocked == isBlockedIp(results[i])
         IN  IF blocked # None
             THEN Invalid("Hostname resolves to blocked " \o blocked \o " address")
             ELSE CheckResults(results, i + 1)

\* validateTokenEndpoint after its await, looking at the first result only.
validateResolved_first(answer) ==
    IF ~answer.ok THEN Invalid("Could not resolve hostname")
    ELSE IF isBlockedIp(answer.addresses[1]) # None
    THEN Invalid("Hostname resolves to blocked " \o isBlockedIp(answer.addresses[1]) \o " address")
    ELSE Valid

\* validateTokenEndpoint after its await: answer.ok is FALSE when lookup
\* rejected, else answer.addresses are the addresses it resolved to.
validateResolved(answer) ==
    IF ~answer.ok THEN Invalid("Could not resolve hostname")
    ELSE CheckResults(answer.addresses, 1)

-----------------------------------------------------------------------------
(* Rate limiter: state machine *)

NoEntry == [count |-> 0, resetAt |-> 0]

NoRequest == [handler |-> None]

\* What a fetch has settled with: nothing yet.
Unsettled ==
    [kind |-> "none", ok |-> FALSE, declared |-> FALSE, length |-> 0,
     parses |-> FALSE, error |-> None]

NoFetch == [armed |-> FALSE, aborted |-> FALSE, deadline |-> 0, response |-> Unsettled]
NoResponse ==
    [status |-> 0, message |-> "", success |-> FALSE, verifier |-> None,
     retryAfter |-> None, rawResponse |-> None, debugRequest |-> None]

\* No request is being handled.
HIdle ==
    /\ hpc = "idle"
    /\ req = NoRequest
    /\ resp = NoResponse
    /\ trace = <<>>
    /\ work = {}
    /\ call = NoFetch

\* The callback parameters of a url without any.
NoParams == [state |-> None, code |-> None, error |-> None]

NoHash == [state |-> None]

createDefaultConfig == [tokenEndpoint |-> "", clientId |-> "", clientSecret |-> ""]

\* createSession(): state is a fresh random UUID.
createSession ==
    [state |-> "state-of-this-page-load", config |-> createDefaultConfig,
     currentStep |-> "configure", callbackParams |-> NoParams, callbackHash |-> NoHash,
     callbackError |-> None, authorizationCode |-> None]

\* No answer of the server proxy, no result of the exchange.
NoExchange == [served |-> FALSE, status |-> 0, exchangeMethod |-> None, success |-> FALSE]

\* The browser has opened the app: nothing is in localStorage, no page has
\* run, no request was sent.
BIdle ==
    /\ bpc = "idle"
    /\ session = createSession
    /\ storage = {}
    /\ page = [status |-> "loading", query |-> NoParams, hash |-> NoHash]
    /\ sent = <<>>
    /\ exchange = NoExchange

\* last: the client key, the time and the result of the last call, the entry
\* it left in the store, its number n in the client's window, whether it
\* came after an earlier window of the client had elapsed, whether the
\* client had no entry in the store when it came, and the number of calls the
\* client had made in its window, the current or the earlier one, before it.
NoCall == [ip |-> None, at |-> 0, result |-> Null, entry |-> NoEntry,
           n |-> 0, elapsed |-> FALSE, absent |-> FALSE, prior |-> 0]
NoObs == [ip |-> None, from |-> 0, allowed |-> 0]

RlStart ==
    /\ store = EmptyMap
    /\ now = 0
    /\ nextSweep = SWEEP_INTERVAL_MS
    /\ last = NoCall
    /\ nticks = 0
    /\ winCalls = [k \in ClientKeys |-> 0]
    /\ winEnd = [k \in ClientKeys |-> 0]
    /\ obs = NoObs

\* One request reaches checkRateLimit.
CheckRateLimit(event) ==
    LET ip == ClientIpOf[event]
        r == checkRateLimit(store, ip, now)
        fresh == winCalls[ip] = 0 \/ now > winEnd[ip]
    IN  /\ fresh \/ winCalls[ip] < CallCap(ip)
        /\ store' = r.store
        /\ last' = [ip |-> ip, at |-> now, result |-> r.result,
                    entry |-> r.store[ip],
                    n |-> IF fresh THEN 1 ELSE winCalls[ip] + 1,
                    elapsed |-> winCalls[ip] > 0 /\ now > winEnd[ip],
                    absent |-> ip \notin DOMAIN store,
                    prior |-> winCalls[ip]]
        /\ winCalls' = [winCalls EXCEPT ![ip] = IF fresh THEN 1 ELSE @ + 1]
        /\ winEnd' = [winEnd EXCEPT ![ip] = IF fresh THEN now + WINDOW_MS ELSE @]
        /\ obs' = IF obs.ip = ip /\ now <= obs.from + WINDOW_MS /\ ~r.result.limited
                  THEN [obs EXCEPT !.allowed = @ + 1]
                  ELSE obs
        /\ UNCHANGED <<now, nextSweep, nticks>>
        /\ UNCHANGED <<vVars, hVars, bVars>>

\* The setInterval callback runs.
Sweep ==
    /\ now >= nextSweep
    /\ store' = sweep(store, now)
    /\ nextSweep' = nextSweep + SWEEP_INTERVAL_MS
    /\ UNCHANGED <<now, last, nticks, winCalls, winEnd, obs>>
    /\ UNCHANGED <<vVars, hVars, bVars>>

\* The clock advances.
Tick(d) ==
    /\ nticks < MaxTicks
    /\ now' = now + d
    /\ nticks' = nticks + 1
    /\ UNCHANGED <<store, nextSweep, last, winCalls, winEnd, obs>>
    /\ UNCHANGED <<vVars, hVars, bVars>>

\* An interval of WINDOW_MS starting now is put under observation for one
\* client key.
Observe(k) ==
    /\ obs.ip = None
    /\ obs' = [ip |-> k, from |-> now, allowed |-> 0]
    /\ UNCHANGED <<store, now, nextSweep, last, nticks, winCalls, winEnd>>
    /\ UNCHANGED <<vVars, hVars, bVars>>

-----------------------------------------------------------------------------
(* Endpoint validator: inputs and name resolution *)

MAX_URL_LENGTH == 2048

RECURSIVE repeat(_, _)
\* String.prototype.repeat
repeat(s, count) ==
    IF count <= 0 THEN ""
    ELSE IF count % 2 = 0
    THEN LET half == repeat(s, count \div 2) IN half \o half
    ELSE s \o repeat(s, count - 1)

\* A url of n characters.
UrlOfLength(n) ==
    LET base == "https://idp.example/" IN base \o repeat("a", n - Len(base))

\* The longest url the handlers accept, and the shortest they turn away.
FullUrl == UrlOfLength(MAX_URL_LENGTH)
LongUrl == UrlOfLength(MAX_URL_LENGTH + 1)

\* The url arguments of the model.
Urls ==
    { "https://idp.example/token",
      "https://idp.example:8443/token",
      "https://IDP.example:443/token",
      "https://idp.example:9999/token",
      "http://idp.example/token",
      "http://idp.example:9999/token",
      "ftp://idp.example/keys",
      "https://localhost/token",
      "http://localhost:3000/token",
      "http://localhost:9999/token",
      "ftp://localhost:21/keys",
      "http://127.0.0.1:8080/token",
      "https://127.0.0.1:22/token",
      "https://169.254.169.254/latest/meta-data",
      "https://10.0.0.5/token",
      "http://10.0.0.5/token",
      "https://172.16.0.1/token",
      "https://172.32.0.1/token",
      "https://93.184.216.34/token",
      "https://93.184.216.34:6379/token",
      "idp.example/token",
      "not a url",
      FullUrl,
      LongUrl }

\* The addresses of the model, in the text form name resolution reports
\* them, each with the range it belongs to: "public" or the name of a
\* reserved range ("mapped" is an address of the range written as an
\* IPv4-mapped IPv6 address).
AddressBook ==
    { [address |-> "93.184.216.34", range |-> "public"],
      [address |-> "172.32.0.1", range |-> "public"],
      [address |-> "2606:4700::1111", range |-> "public"],
      [address |-> "127.0.0.1", range |-> "loopback"],
      [address |-> "127.0.0.53", range |-> "loopback"],
      [address |-> "::1", range |-> "loopback"],
      [address |-> "::ffff:127.0.0.1", range |-> "loopback"],
      [address |-> "10.0.0.5", range |-> "private"],
      [address |-> "192.168.1.10", range |-> "private"],
      [address |-> "172.16.0.1", range |-> "private"],
      [address |-> "172.31.255.254", range |-> "private"],
      [address |-> "169.254.169.254", range |-> "link-local"],
      [address |-> "fc00::1", range |-> "unique-local"],
      [address |-> "fd12:3456::1", range |-> "unique-local"],
      [address |-> "fe80::1", range |-> "link-local"],
      [address |-> "100.100.100.200", range |-> "cloud metadata"],
      [address |-> "0.0.0.0", range |-> "unspecified"],
      [address |-> "::", range |-> "unspecified"],
      [address |-> "::ffff:10.0.0.5", range |-> "mapped private"],
      [address |-> "::ffff:192.168.1.10", range |-> "mapped private"],
      [address |-> "::ffff:169.254.169.254", range |-> "mapped link-local"] }

Addresses == { r.address : r \in AddressBook }

RangeOf(a) == (CHOOSE r \in AddressBook : r.address = a).range

\* The ranges the blocked-range table is to cover.
TableRanges ==
    {"loopback", "private", "link-local", "unique-local", "cloud metadata", "unspecified"}

InBlockedRange(a) == RangeOf(a) \in TableRanges

\* What dns lookup with all: true can answer: it rejects (ok FALSE), or it
\* resolves to a non-empty list of addresses.
NoAnswer == [ok |-> FALSE, addresses |-> <<>>]

AnswersOver(addrs) ==
    { [ok |-> TRUE, addresses |-> l] :
        l \in UNION { [1..n -> addrs] : n \in 1..MaxAddrs } }

DnsAnswers == {NoAnswer} \cup AnswersOver(Addresses)

\* Name resolution of a hostname: a literal address resolves to itself,
\* localhost to loopback addresses, any other name to whatever its DNS
\* zone says or to nothing.
Resolutions(hostname) ==
    IF isIP(hostname) # 0 THEN { [ok |-> TRUE, addresses |-> <<hostname>>] }
    ELSE IF hostname = "localhost" THEN AnswersOver({"127.0.0.1", "::1"})
    ELSE DnsAnswers

\* The functions of the validator are pure: their tables over the inputs.
Parsed == [u \in Urls |-> ParseUrl(u)]

SyncResult == [u \in Urls |-> validateSync(u)]

ResolvedVerdict == [ans \in DnsAnswers |-> validateResolved(ans)]

AnswersFor ==
    [u \in Urls |-> IF Parsed[u].ok THEN Resolutions(Parsed[u].hostname) ELSE {NoAnswer}]

IsLocalHost(hostname) == hostname = "localhost" \/ hostname = "127.0.0.1"

-----------------------------------------------------------------------------
(* Endpoint validator: state machine *)

NoVerdict == [valid |-> FALSE, reason |-> "<pending>"]

VIdle ==
    /\ vpc = "idle"
    /\ vurl = ""
    /\ dnsAnswer = NoAnswer
    /\ verdict = NoVerdict
    /\ lookups = <<>>

\* validateTokenEndpoint(vurl) runs up to its await.
VRunSync(r) ==
    /\ vpc' = IF r.pending THEN "lookup" ELSE "done"
    /\ verdict' = IF r.pending THEN NoVerdict ELSE r.verdict
    /\ lookups' = IF r.pending THEN Append(lookups, r.hostname) ELSE lookups

VStart ==
    /\ vpc = "idle"
    /\ vurl \in Urls
    /\ VRunSync(SyncResult[vurl])
    /\ UNCHANGED <<vurl, dnsAnswer>>
    /\ UNCHANGED <<rlVars, hVars, bVars>>

\* The lookup settles and validateTokenEndpoint runs to its end.
VLookupReturn ==
    /\ vpc = "lookup"
    /\ vpc' = "done"
    /\ verdict' = ResolvedVerdict[dnsAnswer]
    /\ UNCHANGED <<vurl, dnsAnswer, lookups>>
    /\ UNCHANGED <<rlVars, hVars, bVars>>

\* A call of validateTokenEndpoint with any url of the model, under any
\* name resolution of its hostname.
VInit ==
    /\ RlStart
    /\ HIdle
    /\ BIdle
    /\ vpc = "idle"
    /\ vurl \in Urls
    /\ dnsAnswer \in AnswersFor[vurl]
    /\ verdict = NoVerdict
    /\ lookups = <<>>

VNext ==
    \/ VStart
    \/ VLookupReturn

SpecV == VInit /\ [][VNext]_vars

-----------------------------------------------------------------------------
(* Rate limiter: specifications *)

RlInit == RlStart /\ VIdle /\ HIdle /\ BIdle

RlNext ==
    \/ \E e \in Events : CheckRateLimit(e)
    \/ Sweep
    \/ \E d \in TickSteps : Tick(d)

\* The same limiter with the requests of the addressed clients only, and
\* one interval under observation.
RlObsNext ==
    \/ \E e \in AddressedEvents : CheckRateLimit(e)
    \/ Sweep
    \/ \E d \in TickSteps : Tick(d)
    \/ \E e \in AddressedEvents : Observe(ClientIpOf[e])

SpecRL == RlInit /\ [][RlNext]_vars

SpecRLObs == RlInit /\ [][RlObsNext]_vars

-----------------------------------------------------------------------------
(* Request handlers: inputs and the calls they make *)

MAX_CODE_LENGTH == 4096
MAX_SECRET_LENGTH == 512
MAX_CLIENT_ID_LENGTH == 512
MAX_REDIRECT_URI_LENGTH == 2048
MAX_CODE_VERIFIER_LENGTH == 128
FETCH_TIMEOUT_MS == 10000

\* MAX_RESPONSE_SIZE of the token exchange handler and of the discover
\* handler.
TOKEN_MAX_RESPONSE_SIZE == 1024 * 1024
DISCOVER_MAX_RESPONSE_SIZE == 512 * 1024

\* MAX_TOKEN_LENGTH of the resource GET handler and of the resource POST
\* handler.
GET_MAX_TOKEN_LENGTH == 8192
POST_MAX_TOKEN_LENGTH == 16384

\* !value of a string or undefined value.
Falsy(value) == value = None \/ value = ""

\* The urls a request can name, and a discovery document can name as its
\* jwks_uri.
HUrls ==
    { "https://idp.example/token",
      "http://idp.example/token",
      "https://idp.example:9999/token",
      "https://10.0.0.5/token",
      "http://localhost:3000/token",
      "not a url",
      FullUrl,
      LongUrl }

\* What the zone of a domain name of a request answers at one moment.
HDnsAnswers ==
    { NoAnswer,
      [ok |-> TRUE, addresses |-> <<"93.184.216.34">>],
      [ok |-> TRUE, addresses |-> <<"10.0.0.5">>],
      [ok |-> TRUE, addresses |-> <<"93.184.216.34", "169.254.169.254">>] }

\* Name resolution of the hostname of a url of a request.
HResolutions(hostname) ==
    IF isIP(hostname) # 0 THEN { [ok |-> TRUE, addresses |-> <<hostname>>] }
    ELSE IF hostname = "localhost"
    THEN { [ok |-> TRUE, addresses |-> <<"127.0.0.1">>],
           [ok |-> TRUE, addresses |-> <<"::1">>] }
    ELSE HDnsAnswers

HAnswersFor ==
    [u \in HUrls |->
        LET parsed == ParseUrl(u)
        IN  IF parsed.ok THEN HResolutions(parsed.hostname) ELSE {NoAnswer}]

\* fetch(url) resolves the hostname of url when it is called, and connects
\* to one of the addresses it got then, or to nothing.
FetchTargets ==
    [u \in HUrls |->
        LET parsed == ParseUrl(u)
            answers == IF parsed.ok THEN HResolutions(parsed.hostname) ELSE {NoAnswer}
        IN  {None} \cup UNION { { ans.addresses[i] : i \in DOMAIN ans.addresses } :
                                ans \in answers }]

\* How a fetch settles: with a response (its ok flag, whether it declares
\* its content-length, the length of its text, whether the text parses as
\* JSON and the error member of the parsed text), with the abort of its
\* controller, or with a network error.
\* An error text of 501 characters.
LongError == repeat("e", 501)

ProviderErrors == {None, "invalid_grant", "<b>denied</b> by <i>policy</i>", LongError}

\* The body of an error response that carries the text as its error member.
errorBody(error) ==
    IF error = None THEN "{}" ELSE "{\"error\":\"" \o error \o "\"}"

BodyLengths ==
    { 2, DISCOVER_MAX_RESPONSE_SIZE, DISCOVER_MAX_RESPONSE_SIZE + 1,
      TOKEN_MAX_RESPONSE_SIZE, TOKEN_MAX_RESPONSE_SIZE + 1 }

Response(ok, declared, length, parses, error) ==
    [kind |-> "response", ok |-> ok, declared |-> declared, length |-> length,
     parses |-> parses, error |-> error]

Responses ==
    { Response(TRUE, FALSE, n, p, None) : n \in BodyLengths, p \in BOOLEAN }
    \cup { Response(TRUE, TRUE, n, TRUE, None) :
             n \in {TOKEN_MAX_RESPONSE_SIZE, TOKEN_MAX_RESPONSE_SIZE + 1} }
    \cup { Response(FALSE, FALSE, Len(errorBody(e)), TRUE, e) : e \in ProviderErrors }

Settled(kind) ==
    [kind |-> kind, ok |-> FALSE, declared |-> FALSE, length |-> 0,
     parses |-> FALSE, error |-> None]

FetchOutcomes == Responses \cup {Settled("abort"), Settled("error")}

RECURSIVE stripTags(_)
\* message.replace(/<[^>]*>/g, '')
stripTags(message) ==
    LET i == IndexFrom(message, "<", 1)
        j == IF i = 0 THEN 0 ELSE IndexFrom(message, ">", i + 1)
    IN  IF j = 0 THEN message
        ELSE SubSeq(message, 1, i - 1) \o stripTags(SubSeq(message, j + 1, Len(message)))

substring(s, from, to) == SubSeq(s, from + 1, IF to > Len(s) THEN Len(s) ELSE to)

\* sanitizeErrorMessage without the cut to 500 characters.
sanitizeErrorMessage_uncapped(message) == stripTags(message)

sanitizeErrorMessage(message) == substring(stripTags(message), 0, 500)

\* validateStringLength without its test.
validateStringLength_off(value, name, maxLength) == None

validateStringLength(value, name, maxLength) ==
    IF value = None THEN None
    ELSE IF Len(value) > maxLength
    THEN name \o " exceeds maximum length of " \o ToString(maxLength) \o " characters"
    ELSE None

lengthErrors(body) ==
    SelectSeq(
        << validateStringLength(body.tokenEndpoint, "tokenEndpoint", MAX_URL_LENGTH),
           validateStringLength(body.code, "code", MAX_CODE_LENGTH),
           validateStringLength(body.redirectUri, "redirectUri", MAX_REDIRECT_URI_LENGTH),
           validateStringLength(body.clientId, "clientId", MAX_CLIENT_ID_LENGTH),
           validateStringLength(body.clientSecret, "clientSecret", MAX_SECRET_LENGTH),
           validateStringLength(body.codeVerifier, "codeVerifier", MAX_CODE_VERIFIER_LENGTH) >>,
        LAMBDA e : e # None)

\* The redirect URI test of the token exchange handler: the message it
\* throws, or None.
RedirectUris ==
    { "https://app.example/callback",
      "http://app.example/callback",
      "http://localhost:3000/callback",
      "app.example/callback" }

redirectError(parsedRedirect) ==
    IF ~parsedRedirect.ok THEN "Invalid URL"
    ELSE IF /\ parsedRedirect.protocol # "https:"
            /\ parsedRedirect.hostname # "localhost"
            /\ parsedRedirect.hostname # "127.0.0.1"
    THEN "Redirect URI must use HTTPS (except localhost)"
    ELSE None

LongRedirectUri ==
    LET base == "https://app.example/callback?"
    IN  base \o repeat("r", MAX_REDIRECT_URI_LENGTH + 1 - Len(base))

RedirectError ==
    [r \in RedirectUris \cup {LongRedirectUri} |-> redirectError(ParseUrl(r))]

\* A body with all its members, each within its limit.
FullBody ==
    [tokenEndpoint |-> "https://idp.example/token", code |-> "SplxlOBeZQQYbYS6WxSbIA",
     redirectUri |-> "https://app.example/callback", clientId |-> "client-1",
     clientSecret |-> "s3cret", codeVerifier |-> "dBjftJeZ4CVP-mB92K27uhbUJU1p1r_wW1gFWFOEjXk"]

\* Bodies with one member exactly as long as its limit allows, or one
\* character longer, and a body with two members that are too long.
LongBodies ==
    UNION { { [FullBody EXCEPT !.code = repeat("c", MAX_CODE_LENGTH + d)],
              [FullBody EXCEPT !.redirectUri = IF d = 0 THEN @ ELSE LongRedirectUri],
              [FullBody EXCEPT !.clientId = repeat("i", MAX_CLIENT_ID_LENGTH + d)],
              [FullBody EXCEPT !.clientSecret = repeat("s", MAX_SECRET_LENGTH + d)],
              [FullBody EXCEPT !.codeVerifier = repeat("v", MAX_CODE_VERIFIER_LENGTH + d)] } :
            d \in {0, 1} }
    \cup { [FullBody EXCEPT !.code = repeat("c", MAX_CODE_LENGTH + 1),
                            !.codeVerifier = repeat("v", MAX_CODE_VERIFIER_LENGTH + 1)] }

\* The bodies of the token exchange requests.
TokenBodies ==
    { [tokenEndpoint |-> u, code |-> c, redirectUri |-> r, clientId |-> "client-1",
       clientSecret |-> s, codeVerifier |-> None] :
        u \in HUrls \cup {None}, c \in {"", "SplxlOBeZQQYbYS6WxSbIA"},
        r \in RedirectUris, s \in {None, "s3cret"} }
    \cup LongBodies

\* The wellKnownUrl members of the discover requests: absent, blank, or a
\* url, with white space around it or without.
WellKnownUrls == HUrls \cup {None, "   ", " https://idp.example/token "}

\* The Authorization headers of the resource requests.
AuthHeaders ==
    { None, "Basic dXNlcjpwdw==", "Bearer ", "Bearer opaque-token", "Bearer h.p",
      "Bearer h.p.s", "Bearer  h.p.s ", "Bearer h.k.i.c.t" }

\* The bodies of the resource POST requests: the number of keys of the jwks
\* member (present FALSE where there is none), and the secret.
PostBodies ==
    [jwks : {[present |-> FALSE, keys |-> 0], [present |-> TRUE, keys |-> 0],
             [present |-> TRUE, keys |-> 1]},
     secret : {None, "", "s3cret"}]

\* The state of the limiter when a request arrives: no client has called
\* yet, or every client has used up the budget of its window.
ExhaustedStore == [k \in ClientKeys |-> [count |-> MAX_REQUESTS, resetAt |-> WINDOW_MS]]

\* What a handler throws or returns.
Error(statusCode, statusMessage) ==
    [status |-> statusCode, message |-> statusMessage, success |-> FALSE,
     verifier |-> None, retryAfter |-> None, rawResponse |-> None,
     debugRequest |-> None]

Result(success, message, verifier) ==
    [status |-> 200, message |-> message, success |-> success,
     verifier |-> verifier, retryAfter |-> None, rawResponse |-> None,
     debugRequest |-> None]

RateLimitError(rateLimited) ==
    [status |-> 429,
     message |-> "Rate limit exceeded. Retry after "
                    \o ToString(rateLimited.retryAfterSeconds) \o " seconds.",
     success |-> FALSE, verifier |-> None,
     retryAfter |-> ToString(rateLimited.retryAfterSeconds),
     rawResponse |-> None, debugRequest |-> None]

Did(kind, url, address) == [kind |-> kind, url |-> url, address |-> address]

\* if (rateLimited) with the test left out.
RateLimited_ignored(rateLimited) == FALSE

\* if (rateLimited)
RateLimited(rateLimited) == rateLimited.limited

\* if (!endpointCheck.valid) with the test left out.
Blocked_never(endpointCheck) == FALSE

\* if (!endpointCheck.valid)
Blocked(endpointCheck) == ~endpointCheck.valid

-----------------------------------------------------------------------------
(* Request handlers: state machine *)

\* The handler throws or returns.
End(response) ==
    /\ hpc' = "done"
    /\ UNCHANGED bVars
    /\ resp' = response

\* The handler is suspended at an await.
Await(at) ==
    /\ hpc' = at
    /\ UNCHANGED bVars
    /\ resp' = resp

\* const rateLimited = checkRateLimit(event)
Arrive(handler, event, input, rateLimited) ==
    /\ hpc = "idle"
    /\ req' = [handler |-> handler, event |-> event, input |-> input, jwksUri |-> None]
    /\ store' = rateLimited.store
    /\ last' = [ip |-> ClientIpOf[event], at |-> now, result |-> rateLimited.result,
                entry |-> rateLimited.store[ClientIpOf[event]],
                n |-> rateLimited.store[ClientIpOf[event]].count, elapsed |-> FALSE,
                absent |-> ClientIpOf[event] \notin DOMAIN store,
                prior |-> rateLimited.store[ClientIpOf[event]].count - 1]
    /\ UNCHANGED <<now, nextSweep, nticks, winCalls, winEnd, obs>>

\* await validateTokenEndpoint(url), up to the await of the validator.
Validate(url) ==
    /\ vurl' = url
    /\ VRunSync(SyncResult[url])
    /\ dnsAnswer' \in (IF vpc' = "lookup" THEN HAnswersFor[url] ELSE {NoAnswer})

\* validateTokenEndpoint(url) has returned the verdict.
Returned(url) == Did(IF verdict.valid THEN "valid" ELSE "invalid", url, None)

\* const timeout = setTimeout(() => controller.abort(), FETCH_TIMEOUT_MS)
Armed ==
    [armed |-> TRUE, aborted |-> FALSE, deadline |-> now + FETCH_TIMEOUT_MS,
     response |-> Unsettled]

\* clearTimeout(timeout), with response o at hand.
Cleared(o) ==
    [armed |-> FALSE, aborted |-> FALSE, deadline |-> call.deadline, response |-> o]

\* What response.text() has left of the response: the response with its
\* text, or nothing where the reading failed.
Received(read) == IF read THEN call.response ELSE Unsettled

\* The timer has fired: controller.abort().
Aborted ==
    [armed |-> FALSE, aborted |-> TRUE, deadline |-> call.deadline,
     response |-> Unsettled]

\* await fetch(url, ...): the call is issued.
Fetch(url, at) ==
    /\ \E address \in FetchTargets[url] :
           trace' = trace \o <<Returned(url), Did("fetch", url, address)>>
    /\ Await(at)

\* A fetch that connected to nothing does not settle with a response.
Settles(o) == trace[Len(trace)].address = None => o.kind # "response"

\* The fetch of the handler settles with o: with an abort only once the
\* timer has fired.
FetchSettles(o) ==
    /\ Settles(o)
    /\ o.kind = "abort" => (call.armed /\ now >= call.deadline)

\* The calls during which time passes.
Waiting ==
    { "token:fetch", "token:text", "discover:fetch", "discover:text",
      "discover:fetchJwks", "discover:textJwks" }

\* FETCH_TIMEOUT_MS pass while the handler waits for the provider.  An armed
\* timer fires when its time has come: time does not pass beyond it.
HTick ==
    /\ hpc \in Waiting
    /\ call.armed => now + FETCH_TIMEOUT_MS <= call.deadline
    /\ now + FETCH_TIMEOUT_MS <= call.deadline - FETCH_TIMEOUT_MS + MaxStall * FETCH_TIMEOUT_MS
    /\ now' = now + FETCH_TIMEOUT_MS
    /\ UNCHANGED <<store, nextSweep, last, nticks, winCalls, winEnd, obs>>
    /\ UNCHANGED <<vVars, hVars, bVars>>

\* ---- token exchange ----

TokenStart(event, body) ==
    LET r == checkRateLimit(store, ClientIpOf[event], now)
    IN  /\ Arrive("token", event, body, r)
        /\ trace' = trace
        /\ UNCHANGED call
        /\ work' = IF RateLimited(r.result) THEN {} ELSE {"body", "input"}
        /\ IF RateLimited(r.result)
           THEN End(RateLimitError(r.result)) /\ UNCHANGED vVars
           ELSE IF \/ Falsy(body.tokenEndpoint) \/ Falsy(body.code)
                   \/ Falsy(body.redirectUri) \/ Falsy(body.clientId)
           THEN /\ End(Error(400,
                      "Missing required fields: tokenEndpoint, code, redirectUri, clientId"))
                /\ UNCHANGED vVars
           ELSE IF lengthErrors(body) # <<>>
           THEN End(Error(400, lengthErrors(body)[1])) /\ UNCHANGED vVars
           ELSE Validate(body.tokenEndpoint) /\ Await("token:validate")

TokenValidated ==
    LET body == req.input
    IN  /\ hpc = "token:validate"
        /\ vpc = "done"
        /\ UNCHANGED <<rlVars, vVars, req, work>>
        /\ IF Blocked(verdict)
           THEN /\ trace' = Append(trace, Returned(body.tokenEndpoint))
                /\ End(Error(400, "Blocked token endpoint: " \o verdict.reason))
           ELSE IF RedirectError[body.redirectUri] # None
           THEN /\ trace' = Append(trace, Returned(body.tokenEndpoint))
                /\ End(Error(400,
                      "Invalid redirect URI: " \o RedirectError[body.redirectUri]))
           ELSE Fetch(body.tokenEndpoint, "token:fetch")
        /\ call' = IF hpc' = "token:fetch" THEN Armed ELSE call

\* The form the handler posts to the token endpoint, by key.  The requests
\* have no grantType member: grantType || 'authorization_code'.
formParams(body) ==
    LET keys == {"grant_type", "code", "redirect_uri", "client_id"}
                    \cup (IF Falsy(body.clientSecret) THEN {} ELSE {"client_secret"})
                    \cup (IF Falsy(body.codeVerifier) THEN {} ELSE {"code_verifier"})
    IN  [key \in keys |->
            IF key = "grant_type" THEN "authorization_code"
            ELSE IF key = "code" THEN body.code
            ELSE IF key = "redirect_uri" THEN body.redirectUri
            ELSE IF key = "client_id" THEN body.clientId
            ELSE IF key = "client_secret" THEN body.clientSecret
            ELSE body.codeVerifier]

\* The mask of eight bullets (U+2022), written with asterisks.
MASK == "********"

\* The value of debugRequest[key] with the branch for client_secret left out.
debugValue_unmasked(key, value) ==
    IF key = "code"
    THEN (IF Len(value) > 20 THEN substring(value, 0, 20) \o "..." ELSE value)
    ELSE value

\* The value of debugRequest[key] for the value of the form.
debugValue(key, value) ==
    IF key = "client_secret" THEN MASK
    ELSE IF key = "code"
    THEN (IF Len(value) > 20 THEN substring(value, 0, 20) \o "..." ELSE value)
    ELSE value

debugRequest(body) ==
    LET form == formParams(body)
    IN  [key \in DOMAIN form |-> debugValue(key, form[key])]

\* A result of the token exchange, returned with the debugRequest.
Exchange(result) == [result EXCEPT !.debugRequest = debugRequest(req.input)]

\* JSON.stringify(data, null, 2) of the parsed body of the response.
stringify(o) ==
    IF o.error = None THEN "{}" ELSE "{\n  \"error\": \"" \o o.error \o "\"\n}"

tokenResult(o) ==
    IF o.kind = "abort"
    THEN Result(FALSE, "Token endpoint did not respond within "
                           \o ToString(FETCH_TIMEOUT_MS \div 1000) \o " seconds", None)
    ELSE IF o.kind = "error"
    THEN Result(FALSE, sanitizeErrorMessage("fetch failed"), None)
    ELSE IF (o.declared /\ o.length > TOKEN_MAX_RESPONSE_SIZE)
            \/ o.length > TOKEN_MAX_RESPONSE_SIZE
    THEN Result(FALSE, "Token endpoint response too large", None)
    ELSE IF ~o.ok
    THEN [Result(FALSE,
                 sanitizeErrorMessage(IF o.error # None THEN o.error
                                      ELSE "Token exchange failed"),
                 None)
          EXCEPT !.rawResponse = stringify(o)]
    ELSE [Result(TRUE, "", None) EXCEPT !.rawResponse = stringify(o)]

\* await fetch(tokenEndpoint, ...) settles; clearTimeout(timeout) where it
\* has resolved.
TokenResponse(o) ==
    /\ hpc = "token:fetch"
    /\ FetchSettles(o)
    /\ UNCHANGED <<rlVars, vVars, req, work, trace>>
    /\ IF o.kind # "response"
       THEN /\ End(Exchange(tokenResult(o)))
            /\ call' = IF o.kind = "abort" THEN Aborted ELSE call
       ELSE IF o.declared /\ o.length > TOKEN_MAX_RESPONSE_SIZE
       THEN End(Exchange(tokenResult(o))) /\ call' = Cleared(o)
       ELSE Await("token:text") /\ call' = Cleared(o)

\* await response.text() settles: the text is there (read TRUE), or the
\* connection broke.
TokenText(read) ==
    /\ hpc = "token:text"
    /\ UNCHANGED <<rlVars, vVars, req, work, trace>>
    /\ call' = Cleared(Received(read))
    /\ End(Exchange(tokenResult(IF read THEN call.response ELSE Settled("error"))))

\* ---- discover ----

WellKnownUrl == [raw \in WellKnownUrls |-> IF raw = None THEN "" ELSE trim(raw)]

DiscoverStart(event, raw) ==
    LET r == checkRateLimit(store, ClientIpOf[event], now)
        wellKnownUrl == WellKnownUrl[raw]
    IN  /\ Arrive("discover", event, raw, r)
        /\ trace' = trace
        /\ UNCHANGED call
        /\ work' = IF RateLimited(r.result) THEN {} ELSE {"body", "input"}
        /\ IF RateLimited(r.result)
           THEN End(RateLimitError(r.result)) /\ UNCHANGED vVars
           ELSE IF wellKnownUrl = ""
           THEN /\ End(Error(400, "Missing required field: wellKnownUrl"))
                /\ UNCHANGED vVars
           ELSE IF Len(wellKnownUrl) > MAX_URL_LENGTH
           THEN /\ End(Error(400, "wellKnownUrl exceeds maximum length"))
                /\ UNCHANGED vVars
           ELSE Validate(wellKnownUrl) /\ Await("discover:validate")

DiscoverValidated ==
    LET wellKnownUrl == WellKnownUrl[req.input]
    IN  /\ hpc = "discover:validate"
        /\ vpc = "done"
        /\ UNCHANGED <<rlVars, vVars, req, work>>
        /\ IF Blocked(verdict)
           THEN /\ trace' = Append(trace, Returned(wellKnownUrl))
                /\ End(Error(400, "Blocked URL: " \o verdict.reason))
           ELSE Fetch(wellKnownUrl, "discover:fetch")
        /\ call' = IF hpc' = "discover:fetch" THEN Armed ELSE call

\* The message of the error the try block of a document fetch throws for
\* outcome o, or None.
fetchError_anySize(o, tooLarge) ==
    IF o.kind = "abort" THEN "This operation was aborted"
    ELSE IF o.kind = "error" THEN "fetch failed"
    ELSE IF ~o.ok
    THEN "HTTP 500: " \o (IF o.error # None THEN o.error ELSE "Internal Server Error")
    ELSE IF ~o.parses THEN "Unexpected end of JSON input"
    ELSE None

fetchError(o, tooLarge) ==
    IF o.kind = "abort" THEN "This operation was aborted"
    ELSE IF o.kind = "error" THEN "fetch failed"
    ELSE IF ~o.ok
    THEN "HTTP 500: " \o (IF o.error # None THEN o.error ELSE "Internal Server Error")
    ELSE IF o.length > DISCOVER_MAX_RESPONSE_SIZE THEN tooLarge
    ELSE IF ~o.parses THEN "Unexpected end of JSON input"
    ELSE None

\* await fetch(url, ...) of the discover handler settles; clearTimeout
\* where it has resolved, and the test of response.ok.
Headers(o, at, failed, tooLarge) ==
    /\ FetchSettles(o)
    /\ IF o.kind # "response" \/ ~o.ok
       THEN /\ End(Error(502, failed \o fetchError(o, tooLarge)))
            /\ call' = IF o.kind = "error" THEN call
                       ELSE IF o.kind = "abort" THEN Aborted
                       ELSE Cleared(o)
       ELSE Await(at) /\ call' = Cleared(o)

DiscoverResponse(o) ==
    /\ hpc = "discover:fetch"
    /\ UNCHANGED <<rlVars, vVars, req, work, trace>>
    /\ Headers(o, "discover:text", "Failed to fetch discovery document: ",
               "Discovery document too large")

\* await response.text() settles, and the handler goes on to the jwks_uri
\* of the document.
DiscoverDocument(read, jwksUri) ==
    LET message == fetchError(IF read THEN call.response ELSE Settled("error"),
                              "Discovery document too large")
    IN  /\ hpc = "discover:text"
        /\ UNCHANGED <<rlVars, trace, work>>
        /\ IF message # None
           THEN /\ End(Error(502, "Failed to fetch discovery document: " \o message))
                /\ UNCHANGED <<vVars, req>>
           ELSE IF Falsy(jwksUri)
           THEN /\ End(Error(502, "Discovery document does not contain a jwks_uri field"))
                /\ UNCHANGED <<vVars, req>>
           ELSE /\ req' = [req EXCEPT !.jwksUri = jwksUri]
                /\ Validate(jwksUri)
                /\ Await("discover:validateJwks")
        /\ call' = Cleared(IF hpc' = "done" THEN Received(read) ELSE Unsettled)

\* The JWKS fetch with the verdict on the jwks_uri left unread.
DiscoverJwksValidated_unchecked ==
    /\ hpc = "discover:validateJwks"
    /\ vpc = "done"
    /\ UNCHANGED <<rlVars, vVars, req, work>>
    /\ Fetch(req.jwksUri, "discover:fetchJwks")
    /\ call' = Armed

DiscoverJwksValidated ==
    /\ hpc = "discover:validateJwks"
    /\ vpc = "done"
    /\ UNCHANGED <<rlVars, vVars, req, work>>
    /\ IF Blocked(verdict)
       THEN /\ trace' = Append(trace, Returned(req.jwksUri))
            /\ End(Error(400, "Blocked JWKS URI: " \o verdict.reason))
       ELSE Fetch(req.jwksUri, "discover:fetchJwks")
    /\ call' = IF hpc' = "discover:fetchJwks" THEN Armed ELSE call

DiscoverJwksResponse(o) ==
    /\ hpc = "discover:fetchJwks"
    /\ UNCHANGED <<rlVars, vVars, req, work, trace>>
    /\ Headers(o, "discover:textJwks", "Failed to fetch JWKS: ", "JWKS response too large")

DiscoverJwks(read, keys) ==
    LET message == fetchError(IF read THEN call.response ELSE Settled("error"),
                              "JWKS response too large")
    IN  /\ hpc = "discover:textJwks"
        /\ call' = Cleared(Received(read))
        /\ UNCHANGED <<rlVars, vVars, req, work, trace>>
        /\ IF message # None
           THEN End(Error(502, "Failed to fetch JWKS: " \o message))
           ELSE IF keys = 0
           THEN End(Error(502, "JWKS does not contain any keys"))
           ELSE End(Result(TRUE, req.jwksUri, None))

\* ---- resource (GET): verification against the remote JWKS ----

BadAuthorization ==
    Error(401, "Missing or invalid Authorization header. Expected: Bearer <token>")

\* authHeader.slice(7)
slice7(authHeader) == SubSeq(authHeader, 8, Len(authHeader))

\* An error the verifier threw, as the handler throws it on.
Thrown(statusCode, statusMessage, verifier) ==
    [Error(statusCode, statusMessage) EXCEPT !.verifier = verifier]

\* The query of a resource GET request, with the secret the client sends
\* along for an encrypted token; the handler does not read it.
GetQueries ==
    [authorization : AuthHeaders, jwks_uri : HUrls \cup {None}, secret : {None, "s3cret"}]

ResourceGetStart(event, query) ==
    LET r == checkRateLimit(store, ClientIpOf[event], now)
        authHeader == query.authorization
        token == slice7(authHeader)
        jwksUri == IF Falsy(query.jwks_uri) THEN "" ELSE query.jwks_uri
    IN  /\ Arrive("resourceGet", event, query, r)
        /\ trace' = trace
        /\ UNCHANGED call
        /\ work' = IF RateLimited(r.result) THEN {} ELSE {"input"}
        /\ IF RateLimited(r.result)
           THEN End(RateLimitError(r.result)) /\ UNCHANGED vVars
           ELSE IF Falsy(authHeader) \/ ~startsWith(authHeader, "Bearer ")
           THEN End(BadAuthorization) /\ UNCHANGED vVars
           ELSE IF Len(token) > GET_MAX_TOKEN_LENGTH
           THEN End(Error(401, "Token exceeds maximum length")) /\ UNCHANGED vVars
           ELSE IF jwksUri = ""
           THEN /\ End(Error(400, "Missing required query parameter: jwks_uri"))
                /\ UNCHANGED vVars
           ELSE IF Len(jwksUri) > MAX_URL_LENGTH
           THEN /\ End(Error(400, "jwks_uri exceeds maximum length"))
                /\ UNCHANGED vVars
           ELSE Validate(jwksUri) /\ Await("resourceGet:validate")

\* jwtVerify(token, JWKS, verifyOptions) up to the fetch of the key set: it
\* throws on a token that is not a compact JWS of three parts or whose
\* protected header does not decode (wellFormed FALSE), before it asks
\* for a key.
ResourceGetValidated(wellFormed) ==
    LET jwksUri == req.input.jwks_uri
        token == slice7(req.input.authorization)
    IN  /\ hpc = "resourceGet:validate"
        /\ vpc = "done"
        /\ UNCHANGED <<rlVars, vVars, req, work>>
        /\ IF Blocked(verdict)
           THEN /\ trace' = Append(trace, Returned(jwksUri))
                /\ End(Error(400, "Blocked JWKS URI: " \o verdict.reason))
           ELSE IF Len(split(token, ".")) # 3
           THEN /\ trace' = Append(trace, Returned(jwksUri))
                /\ End(Thrown(401, "Invalid Compact JWS", "jwtVerify"))
           ELSE IF ~wellFormed
           THEN /\ trace' = Append(trace, Returned(jwksUri))
                /\ End(Thrown(401, "JWS Protected Header is invalid", "jwtVerify"))
           ELSE Fetch(jwksUri, "resourceGet:fetchJwks")
        /\ UNCHANGED call

\* The key set arrives, or does not, and jwtVerify runs to its end.
ResourceGetJwks(o, verified) ==
    /\ hpc = "resourceGet:fetchJwks"
    /\ Settles(o)
    /\ UNCHANGED <<rlVars, vVars, req, work, trace>>
    /\ call' = [call EXCEPT !.response = o]
    /\ IF o.kind = "abort"
       THEN End(Thrown(401, "request timed out", "jwtVerify"))
       ELSE IF o.kind = "error"
       THEN End(Thrown(401, "fetch failed", "jwtVerify"))
       ELSE IF ~o.ok
       THEN End(Thrown(401,
                "Expected 200 OK from the JSON Web Key Set HTTP response", "jwtVerify"))
       ELSE IF ~o.parses
       THEN End(Thrown(401,
                "Failed to parse the JSON Web Key Set HTTP response as JSON", "jwtVerify"))
       ELSE IF ~verified
       THEN End(Thrown(401, "signature verification failed", "jwtVerify"))
       ELSE End(Result(TRUE, "Access token is valid", "jwtVerify"))

\* ---- resource (POST): verification against the key set of the body ----

notJwt(parts) ==
    "The access token is not a valid JWT. Expected 3 parts (JWS) or 5 parts (JWE), got "
        \o ToString(Len(parts))
        \o ". This is likely an opaque token. For Auth0, set the \"audience\" parameter"
        \o " in the Configure step to receive a JWT access token."

ResourcePost(event, authHeader, body, verified) ==
    LET r == checkRateLimit(store, ClientIpOf[event], now)
        token == trim(slice7(authHeader))
        secret == body.secret
        parts == split(token, ".")
        isJWE == Len(parts) = 5
        isJWS == Len(parts) = 3
    IN  /\ Arrive("resourcePost", event,
                  [authorization |-> authHeader, body |-> body], r)
        /\ UNCHANGED <<vVars, trace>>
        /\ UNCHANGED call
        /\ work' = IF RateLimited(r.result) THEN {}
                   ELSE IF \/ Falsy(authHeader) \/ ~startsWith(authHeader, "Bearer ")
                           \/ token = "" \/ Len(token) > POST_MAX_TOKEN_LENGTH
                   THEN {"input"}
                   ELSE {"input", "body"}
        /\ IF RateLimited(r.result)
           THEN End(RateLimitError(r.result))
           ELSE IF Falsy(authHeader) \/ ~startsWith(authHeader, "Bearer ")
           THEN End(BadAuthorization)
           ELSE IF token = ""
           THEN End(Error(401, "Bearer token is empty"))
           ELSE IF Len(token) > POST_MAX_TOKEN_LENGTH
           THEN End(Error(401, "Token exceeds maximum length"))
           ELSE IF ~Falsy(secret) /\ Len(secret) > MAX_SECRET_LENGTH
           THEN End(Error(400, "secret exceeds maximum length"))
           ELSE IF ~isJWS /\ ~isJWE
           THEN End(Error(401, notJwt(parts)))
           ELSE IF isJWE
           THEN IF Falsy(secret)
                THEN End(Error(400,
                         "The access token is a JWE (encrypted JWT with 5 parts)."
                             \o " A signing secret is required to decrypt it."))
                ELSE IF verified
                THEN End(Result(TRUE, "Access token decrypted and validated (JWE)",
                                "jwtDecrypt"))
                ELSE End(Thrown(401,
                         "JWE decryption/validation failed: decryption operation failed",
                         "jwtDecrypt"))
           ELSE IF ~body.jwks.present \/ body.jwks.keys = 0
           THEN End(Error(400,
                    "Missing JWKS keys. Fetch and cache the provider's JWKS"
                        \o " in the JWKS step first."))
           ELSE IF verified
           THEN End(Result(TRUE,
                    "Access token signature verified offline (JWS) - no network call made",
                    "jwtVerify"))
           ELSE End(Thrown(401,
                    "JWS verification failed: signature verification failed",
                    "jwtVerify"))

-----------------------------------------------------------------------------
(* Request handlers: specification *)

\* One request arrives, at a limiter that is fresh or used up, and is
\* handled to its end.
HInit ==
    /\ store \in {EmptyMap, ExhaustedStore}
    /\ now = 0
    /\ nextSweep = SWEEP_INTERVAL_MS
    /\ last = NoCall
    /\ nticks = 0
    /\ winCalls = [k \in ClientKeys |-> IF store = EmptyMap THEN 0 ELSE MAX_REQUESTS]
    /\ winEnd = [k \in ClientKeys |-> IF store = EmptyMap THEN 0 ELSE WINDOW_MS]
    /\ obs = NoObs
    /\ VIdle
    /\ HIdle
    /\ BIdle

\* The events of the requests: one of each client key.
HEvents == { e \in Events : e.xff # None \/ e.remote = None }

\* The responses to the fetches of the discover handler, which does not
\* look at the content-length.
DiscoverOutcomes == { o \in FetchOutcomes : ~o.declared }

HNext ==
    \/ \E e \in HEvents, body \in TokenBodies : TokenStart(e, body)
    \/ TokenValidated
    \/ \E o \in FetchOutcomes : TokenResponse(o)
    \/ \E read \in BOOLEAN : TokenText(read)
    \/ \E e \in HEvents, raw \in WellKnownUrls : DiscoverStart(e, raw)
    \/ DiscoverValidated
    \/ \E o \in DiscoverOutcomes : DiscoverResponse(o)
    \/ \E read \in BOOLEAN, jwksUri \in HUrls \cup {None} : DiscoverDocument(read, jwksUri)
    \/ DiscoverJwksValidated
    \/ \E o \in DiscoverOutcomes : DiscoverJwksResponse(o)
    \/ \E read \in BOOLEAN, keys \in {0, 1} : DiscoverJwks(read, keys)
    \/ \E e \in HEvents, query \in GetQueries : ResourceGetStart(e, query)
    \/ \E wellFormed \in BOOLEAN : ResourceGetValidated(wellFormed)
    \/ \E o \in DiscoverOutcomes, verified \in BOOLEAN : ResourceGetJwks(o, verified)
    \/ \E e \in HEvents, authHeader \in AuthHeaders, body \in PostBodies,
          verified \in BOOLEAN :
           ResourcePost(e, authHeader, body, verified)
    \/ VLookupReturn
    \/ HTick

SpecH == HInit /\ [][HNext]_vars

-----------------------------------------------------------------------------
(* Rate limiter: properties *)

\* C1: within one window of a client, calls number 1 to MAX_REQUESTS return
\* Allowed (null) and every later call returns Limited; the first call after
\* the window has elapsed returns Allowed and leaves the client's entry with
\* count = 1 and resetAt = now + WINDOW_MS.
C1_WindowBudget ==
    last.ip # None =>
        /\ last.n <= MAX_REQUESTS => last.result = Null
        /\ last.n > MAX_REQUESTS => last.result.limited
        /\ last.elapsed =>
              /\ last.n = 1
              /\ last.result = Null
              /\ last.entry = [count |-> 1, resetAt |-> last.at + WINDOW_MS]

\* One client is past its budget in its window, and another has just made
\* its first call after its own window elapsed.
C1_Witness ==
    /\ last.ip # None
    /\ last.elapsed
    /\ last.result = Null
    /\ \E k \in ClientKeys : winCalls[k] > MAX_REQUESTS /\ now <= winEnd[k]

\* C2: for every client key and every interval of WINDOW_MS, at most
\* MAX_REQUESTS of the client's calls inside the interval return Allowed.
C2_SlidingWindow == obs.allowed <= MAX_REQUESTS

-----------------------------------------------------------------------------
(* Endpoint validator: properties *)

\* The ports of the allow-list.
AllowedPortSet == {"80", "443", "3000", "8080", "8443"}

VDone == vpc = "done"

VHost == Parsed[vurl].hostname

\* The url names a host other than localhost and 127.0.0.1.
VRemote == Parsed[vurl].ok /\ ~IsLocalHost(VHost)

\* The url is written with a port that is not the default port of its scheme.
VExplicitPort ==
    /\ WrittenPort(vurl) # ""
    /\ parseInt(WrittenPort(vurl)) # DefaultPort(SubSeq(Parsed[vurl].protocol, 1,
                                                   Len(Parsed[vurl].protocol) - 1))

SomeBlocked(ans) ==
    ans.ok /\ \E i \in DOMAIN ans.addresses : InBlockedRange(ans.addresses[i])

AllBlocked(ans) ==
    ans.ok /\ \A i \in DOMAIN ans.addresses : InBlockedRange(ans.addresses[i])

\* C5: for a hostname other than localhost / 127.0.0.1 that resolves to a
\* non-empty list of addresses of which at least one lies in a blocked range,
\* validateTokenEndpoint returns Invalid, wherever the blocked address
\* stands in the list.
C5_AnyBlockedAddress ==
    (VDone /\ VRemote /\ SomeBlocked(dnsAnswer)) => ~verdict.valid

\* A name was looked up, its first address is public and a later one is
\* blocked.
C5_Witness ==
    /\ VDone
    /\ lookups # <<>>
    /\ Len(dnsAnswer.addresses) = 2
    /\ RangeOf(dnsAnswer.addresses[1]) = "public"
    /\ InBlockedRange(dnsAnswer.addresses[2])
    /\ ~verdict.valid

\* C6 as written: for every hostname whose resolved addresses all lie in a
\* blocked range, validateTokenEndpoint returns Invalid.
C6_AllBlockedInvalid ==
    (VDone /\ Parsed[vurl].ok /\ AllBlocked(dnsAnswer)) => ~verdict.valid

\* C6 as amended: for every hostname other than localhost and 127.0.0.1
\* whose resolved addresses all lie in a blocked range, validateTokenEndpoint
\* returns Invalid, whichever rule of the table matches.
C6_AllBlockedRemoteInvalid ==
    (VDone /\ VRemote /\ AllBlocked(dnsAnswer)) => ~verdict.valid

\* A looked-up name resolved to an unspecified address only, which no prefix
\* rule of the table matches.
C6_Witness ==
    /\ VDone
    /\ lookups # <<>>
    /\ AllBlocked(dnsAnswer)
    /\ RangeOf(dnsAnswer.addresses[1]) = "unspecified"
    /\ ~verdict.valid

\* C7: a url whose scheme is not https and whose hostname is neither
\* localhost nor 127.0.0.1 is Invalid, whatever its port and whatever its
\* hostname resolves to, and no DNS lookup is made for it.
C7_NonHttpsInvalid ==
    (VRemote /\ Parsed[vurl].protocol # "https:") =>
        /\ vpc # "lookup"
        /\ VDone => (~verdict.valid /\ lookups = <<>>)

\* An http url on an allowed port whose hostname resolves to public
\* addresses only has been rejected.
C7_Witness ==
    /\ VDone
    /\ Parsed[vurl].protocol = "http:"
    /\ VRemote
    /\ Parsed[vurl].port = ""
    /\ dnsAnswer.ok
    /\ ~SomeBlocked(dnsAnswer)
    /\ ~verdict.valid

\* C8 as written: every url with an explicit port outside the allow-list is
\* Invalid with the disallowed-port reason.
C8_BadPortReason ==
    (VDone /\ Parsed[vurl].ok /\ WrittenPort(vurl) # ""
        /\ WrittenPort(vurl) \notin AllowedPortSet)
    => verdict = Invalid("Port " \o WrittenPort(vurl) \o " is not allowed")

\* C8 as amended: a url that is https or names localhost / 127.0.0.1, and
\* is written with a port that is neither its scheme's default port nor in
\* the allow-list, is Invalid with the disallowed-port reason and without a
\* DNS lookup; a url of another scheme on another host is Invalid with the
\* HTTPS reason whatever its port.
C8_BadPortReasonAfterScheme ==
    /\ (Parsed[vurl].ok /\ (Parsed[vurl].protocol = "https:" \/ IsLocalHost(VHost))
          /\ VExplicitPort /\ WrittenPort(vurl) \notin AllowedPortSet)
       => /\ vpc # "lookup"
          /\ VDone => /\ verdict = Invalid("Port " \o WrittenPort(vurl) \o " is not allowed")
                      /\ lookups = <<>>
    /\ (VDone /\ VRemote /\ Parsed[vurl].protocol # "https:")
       => verdict = Invalid("Token endpoint must use HTTPS")

\* A localhost url with a port outside the allow-list has been rejected for
\* its port.
C8_Witness ==
    /\ VDone
    /\ VHost = "localhost"
    /\ WrittenPort(vurl) = "9999"
    /\ verdict = Invalid("Port 9999 is not allowed")

\* C9: a url whose hostname is localhost or 127.0.0.1 and whose port is
\* empty or in the allow-list is Valid for any scheme, and no DNS lookup is
\* made during the call.
C9_LocalhostValid ==
    (Parsed[vurl].ok /\ IsLocalHost(VHost)
        /\ (Parsed[vurl].port = "" \/ Parsed[vurl].port \in AllowedPortSet))
    => /\ vpc # "lookup"
       /\ VDone => (verdict = Valid /\ lookups = <<>>)

\* An http url on localhost with an allowed port has been accepted.
C9_Witness ==
    /\ VDone
    /\ Parsed[vurl].protocol = "http:"
    /\ VHost = "localhost"
    /\ Parsed[vurl].port = "3000"
    /\ verdict = Valid
    /\ lookups = <<>>


-----------------------------------------------------------------------------
(* Request handlers: properties *)

IsFetch(i) == trace[i].kind = "fetch"

ValidatedBefore(i) ==
    \E j \in 1..(i - 1) : trace[j] = Did("valid", trace[i].url, None)

DomainName(url) ==
    /\ Parsed[url].ok
    /\ isIP(Parsed[url].hostname) = 0
    /\ Parsed[url].hostname # "localhost"

\* C4: no fetch of a url with a domain name, issued after
\* validateTokenEndpoint has returned Valid for the url, connects to an
\* address in a range of the blocked-range table, whatever the DNS answers
\* when the fetch resolves the name again.
C4_NoBlockedConnection ==
    \A i \in DOMAIN trace :
        (/\ IsFetch(i)
         /\ ValidatedBefore(i)
         /\ DomainName(trace[i].url)
         /\ trace[i].address # None)
            => ~InBlockedRange(trace[i].address)

\* The bearer token of a resource request as its handler reads it.
BearerToken ==
    IF req.handler = "resourceGet" THEN slice7(req.input.authorization)
    ELSE trim(slice7(req.input.authorization))

\* A resource request is over and was not turned away before the handler
\* came to look at the token: it was not rate limited, it carried a
\* non-empty bearer token and, with GET, a jwks_uri the validator accepts.
TokenLookedAt ==
    /\ hpc = "done"
    /\ req.handler \in {"resourceGet", "resourcePost"}
    /\ resp.status # 429
    /\ startsWith(req.input.authorization, "Bearer ")
    /\ BearerToken # ""
    /\ req.handler = "resourceGet" => (trace # <<>> /\ trace[1].kind = "valid")

\* C10: in the resource GET and POST handlers a token of 3 segments is
\* never handed to JWE decryption, a token of 5 segments is never handed
\* to JWS verification, and a token of any other number N of segments is
\* answered 401 with the message that states N.
C10_ClassifiedBySegments ==
    TokenLookedAt =>
        LET parts == split(BearerToken, ".")
        IN  /\ Len(parts) = 3 => resp.verifier # "jwtDecrypt"
            /\ Len(parts) = 5 => resp.verifier # "jwtVerify"
            /\ Len(parts) \notin {3, 5} =>
                   (resp.status = 401 /\ resp.message = notJwt(parts))


\* A resource request is over that was not rate limited and carried a
\* non-empty bearer token of n segments.
ResourceDone(n) ==
    /\ hpc = "done"
    /\ req.handler \in {"resourceGet", "resourcePost"}
    /\ resp.status # 429
    /\ startsWith(req.input.authorization, "Bearer ")
    /\ BearerToken # ""
    /\ Len(split(BearerToken, ".")) = n

\* The secret that came with a resource request, in its query or its body.
RequestSecret ==
    IF req.handler = "resourceGet" THEN req.input.secret ELSE req.input.body.secret

\* C11: a resource request (GET or POST) with a token of 5 segments and no
\* secret is answered 400, never 401; and a POST request with a token of 3
\* segments and no key in its jwks is answered 400, never 401.
C11_MissingKeyMaterial ==
    /\ (ResourceDone(5) /\ Falsy(RequestSecret)) => resp.status = 400
    /\ (/\ ResourceDone(3)
        /\ req.handler = "resourcePost"
        /\ (~req.input.body.jwks.present \/ req.input.body.jwks.keys = 0))
           => resp.status = 400

\* C12: a resource request (GET or POST) with a token of 5 segments makes
\* no DNS lookup and issues no fetch, whatever its outcome.
C12_NoNetworkForJwe ==
    ResourceDone(5) =>
        /\ lookups = <<>>
        /\ \A i \in DOMAIN trace : ~IsFetch(i)


\* C13: in each handler, a request for which checkRateLimit returned
\* Limited is over with status 429 and a Retry-After header that is the
\* retryAfterSeconds of the result, and nothing else was done for it: no
\* body read, no input tested, no endpoint validated, no DNS lookup, no
\* fetch and no verification of a token.
C13_RateLimitFirst ==
    last.result.limited =>
        /\ hpc = "done"
        /\ resp.status = 429
        /\ resp.retryAfter = ToString(last.result.retryAfterSeconds)
        /\ work = {}
        /\ vpc = "idle"
        /\ lookups = <<>>
        /\ trace = <<>>
        /\ resp.verifier = None

\* A discover request of a client that has used up its budget was answered
\* 429 with Retry-After: 60.
C13_Witness ==
    /\ req.handler = "discover"
    /\ last.result.limited
    /\ hpc = "done"
    /\ resp.status = 429
    /\ resp.retryAfter = "60"


\* A member of the body of a token exchange request is longer than the
\* limit the interface gives for it.
TooLong(value, limit) == value # None /\ Len(value) > limit

OverLimit(body) ==
    \/ TooLong(body.tokenEndpoint, 2048)
    \/ TooLong(body.redirectUri, 2048)
    \/ TooLong(body.code, 4096)
    \/ TooLong(body.clientSecret, 512)
    \/ TooLong(body.codeVerifier, 128)

FetchStarted == call.deadline - FETCH_TIMEOUT_MS

\* C15: an outbound call of the token exchange and discover handlers is over
\* 10 seconds after its fetch started, the reading of the response body
\* included: no handler is still waiting for the provider later than that.
C15_BoundedByTimeout ==
    hpc \in Waiting => now - FetchStarted <= FETCH_TIMEOUT_MS


\* sub occurs in s.
Contains(s, sub) ==
    \E i \in 1..(Len(s) - Len(sub) + 1) : SubSeq(s, i, i + Len(sub) - 1) = sub

\* The message says that the call ran into the timeout.
TimeoutLabeled(message) ==
    \/ Contains(message, "did not respond within")
    \/ Contains(message, "imeout")
    \/ Contains(message, "imed out")

\* C16: the response to a request whose outbound call was aborted by the
\* timer carries a message that names the timeout.
C16_TimeoutLabeled ==
    call.aborted => (hpc = "done" /\ TimeoutLabeled(resp.message))


\* The request is over, and the handler has read the whole body of the
\* response to its last outbound call (or has its content-length).
BodyReceived(handler) ==
    /\ req.handler = handler
    /\ hpc = "done"
    /\ call.response.kind = "response"
    /\ call.response.ok

\* The response was rejected as too large.
RejectedTooLarge == Contains(resp.message, "too large")

\* C17 as stated: a token endpoint response, a discovery document or a JWKS
\* document is rejected as too large if and only if its size exceeds 1048576.
C17_OneMegabyteCeiling ==
    (BodyReceived("token") \/ BodyReceived("discover")) =>
        (RejectedTooLarge <=> call.response.length > 1048576)

\* C17: a token endpoint response is rejected as too large if and only if
\* its size exceeds 1048576; a discovery document or a JWKS document if and
\* only if its size exceeds 524288.
C17_SizeCeilings ==
    /\ BodyReceived("token") =>
           (RejectedTooLarge <=> call.response.length > 1048576)
    /\ BodyReceived("discover") =>
           (RejectedTooLarge <=> call.response.length > 524288)

\* A JWKS document of 524289 characters, fetched after a discovery document
\* that was accepted, was rejected as too large.
C17_Witness ==
    /\ BodyReceived("discover")
    /\ req.jwksUri # None
    /\ call.response.length = 524289
    /\ resp.status = 502
    /\ resp.message = "Failed to fetch JWKS: JWKS response too large"


\* The provider answered the last outbound call of the request with an error
\* that carries a text.
ProviderError ==
    /\ req.handler \in {"token", "discover"}
    /\ hpc = "done"
    /\ call.response.kind = "response"
    /\ ~call.response.ok
    /\ call.response.error # None

\* The text has no markup and is no longer than the cap.
Sanitary(text) == stripTags(text) = text /\ Len(text) <= 500

\* The field of the response carries the text as the provider sent it.
Carries(field, text) == field # None /\ Contains(field, text)

\* C18: where the provider answered with an error text that has markup in it
\* or is longer than 500 characters, no field of the response carries that
\* text as it was sent.
C18_ProviderTextSanitized ==
    (ProviderError /\ ~Sanitary(call.response.error)) =>
        /\ ~Carries(resp.message, call.response.error)
        /\ ~Carries(resp.rawResponse, call.response.error)


\* The fetches the request has issued.
Fetches == { i \in DOMAIN trace : IsFetch(i) }

\* The discover handler has read a discovery document that parses and is
\* within the size ceiling, and has found no jwks_uri in it.
DocumentWithoutJwksUri ==
    /\ req.handler = "discover"
    /\ hpc = "done"
    /\ req.jwksUri = None
    /\ call.response.kind = "response"
    /\ call.response.ok
    /\ call.response.parses
    /\ call.response.length <= 524288

ExchangeReturned ==
    /\ req.handler = "token"
    /\ hpc = "done"
    /\ Fetches # {}

\* The request with another client secret in the place of its own.
OtherSecret == [req.input EXCEPT !.clientSecret = "0ther-s3cret"]

\* C20: every result of a token exchange has a debugRequest with the keys
\* of the outbound form; where the request has a client secret, the value
\* of client_secret is the mask, no value of debugRequest contains the
\* client secret, and debugRequest is what it would be for any other client
\* secret.
C20_SecretMasked ==
    ExchangeReturned =>
        /\ DOMAIN resp.debugRequest = DOMAIN formParams(req.input)
        /\ ~Falsy(req.input.clientSecret) =>
               /\ "client_secret" \in DOMAIN resp.debugRequest
               /\ resp.debugRequest["client_secret"] = MASK
               /\ \A key \in DOMAIN resp.debugRequest :
                      ~Contains(resp.debugRequest[key], req.input.clientSecret)
               /\ resp.debugRequest = debugRequest(OtherSecret)

\* A token exchange with a client secret ran into the timeout, and its
\* result has the debugRequest with the mask.
C20_Witness ==
    /\ ExchangeReturned
    /\ call.aborted
    /\ req.input.clientSecret = "s3cret"
    /\ resp.debugRequest["client_secret"] = MASK
    /\ resp.debugRequest["code"] = "SplxlOBeZQQYbYS6WxSb..."


-----------------------------------------------------------------------------
(* Rate limiter: the sweep, the windows and the client keys *)

\* The step is a run of the setInterval callback.
SweepStep == nextSweep' # nextSweep

\* C24: a sweep at time now removes exactly the entries with now > resetAt
\* and leaves every other entry as it was, count and resetAt.
C24_SweepOnlyDeletes ==
    [][SweepStep =>
          /\ DOMAIN store' = { k \in DOMAIN store : ~(now > store[k].resetAt) }
          /\ \A k \in DOMAIN store' : store'[k] = store[k]]_vars

\* A sweep has run and has deleted the entry of one client, whose window had
\* elapsed, while the entry of another client, whose window is open, is in
\* the store with the count of the calls the client made.
C24_Witness ==
    /\ nextSweep > SWEEP_INTERVAL_MS
    /\ \E k \in ClientKeys : winCalls[k] > 0 /\ k \notin DOMAIN store
    /\ \E k \in DOMAIN store :
           /\ now <= store[k].resetAt
           /\ store[k] = [count |-> winCalls[k], resetAt |-> winEnd[k]]


\* The store of a limiter that never sweeps, after the calls made so far:
\* the entry of a client is the one its first call of its current window
\* created and its later calls counted up.
NeverSwept ==
    [k \in { c \in ClientKeys : winCalls[c] > 0 } |->
        [count |-> winCalls[k], resetAt |-> winEnd[k]]]

\* The step is a call of checkRateLimit.
CallStep == last' # last

\* C25: whatever sweeps have run between the calls, every call of
\* checkRateLimit returns the verdict, Allowed or Limited with its
\* retryAfterSeconds, that the limiter that never sweeps returns for it.
C25_SweepUnobservable ==
    [][CallStep =>
          last'.result = checkRateLimit(NeverSwept, last'.ip, now).result]_vars

\* A client that had used its budget up and gone past it in a window that
\* has elapsed finds its entry deleted by a sweep, and its call is Allowed.
C25_Witness ==
    /\ last.ip # None
    /\ last.elapsed
    /\ last.absent
    /\ last.prior > MAX_REQUESTS
    /\ last.result = Null
    /\ nextSweep > SWEEP_INTERVAL_MS


\* C26: whenever checkRateLimit returns Limited, its retryAfterSeconds is an
\* integer from 1 to 60.
C26_RetryAfterRange ==
    last.result.limited => last.result.retryAfterSeconds \in 1..60


\* The number the step adds to the count of client key k.
Counted(k) == IF CallStep /\ last'.ip = k THEN 1 ELSE 0

\* C27: while the window of a client is open, no step changes the resetAt of
\* its entry, and its count grows by 1 with each call of the client, Allowed
\* or Limited, and not otherwise; the first call of a client after the
\* resetAt of its window is Allowed, however many calls the client made in
\* that window.
C27_WindowFixed ==
    [][/\ \A k \in DOMAIN store :
              now <= store[k].resetAt =>
                  /\ k \in DOMAIN store'
                  /\ store'[k].resetAt = store[k].resetAt
                  /\ store'[k].count = store[k].count + Counted(k)
       /\ (CallStep /\ winCalls[last'.ip] > 0 /\ now > winEnd[last'.ip]) =>
              /\ last'.result = Null
              /\ last'.entry = [count |-> 1, resetAt |-> now + WINDOW_MS]]_vars

\* A client went on calling while it was limited, its entry stayed in the
\* store until after its resetAt, and its first call after that was Allowed.
C27_Witness ==
    /\ last.ip # None
    /\ last.elapsed
    /\ ~last.absent
    /\ last.prior = MAX_REQUESTS + MaxOver
    /\ last.result = Null
    /\ last.entry.count = 1


\* The store that the calls of client key k alone leave in a limiter without
\* sweeps: the entry of its current window, if it has made a call.
OwnHistory(k) ==
    IF winCalls[k] > 0
    THEN [x \in {k} |-> [count |-> winCalls[k], resetAt |-> winEnd[k]]]
    ELSE EmptyMap

\* C28: a call of checkRateLimit for a client key leaves every other key of
\* the store as it was, present or absent, count and resetAt; and the
\* verdict of the call is the one that follows from the client's own earlier
\* calls, whatever calls other clients made in between.
C28_ClientIsolation ==
    [][CallStep =>
          /\ \A k \in ClientKeys \ {last'.ip} :
                 /\ k \in DOMAIN store' <=> k \in DOMAIN store
                 /\ k \in DOMAIN store => store'[k] = store[k]
          /\ last'.result
                 = checkRateLimit(OwnHistory(last'.ip), last'.ip, now).result]_vars

\* One client has been answered Limited while the entry of another client,
\* which made one call, is in the store with count 1.
C28_Witness ==
    /\ last.ip = "1.1.1.1"
    /\ last.result.limited
    /\ "unknown" \in DOMAIN store
    /\ winCalls["unknown"] = 1
    /\ store["unknown"] = [count |-> 1, resetAt |-> winEnd["unknown"]]
    /\ store["unknown"].resetAt # store["1.1.1.1"].resetAt


-----------------------------------------------------------------------------
(* Request handlers: the failure of the JWKS fetch *)

\* The response to the fetch was not a 2xx response.
NotOk(response) == response.kind = "response" /\ ~response.ok

\* The request is over and its fetch of the remote JWKS has failed: with a
\* network error, with a response that is not 2xx, or by running out of time.
JwksFetchFailed ==
    /\ hpc = "done"
    /\ \/ /\ req.handler = "discover"
          /\ Len(trace) = 4
          /\ call.aborted \/ call.armed \/ NotOk(call.response)
       \/ /\ req.handler = "resourceGet"
          /\ Fetches # {}
          /\ call.response.kind \in {"abort", "error"} \/ NotOk(call.response)

\* C22: a request whose fetch of the remote JWKS failed is answered 502, in
\* the discover handler and in the resource GET handler.
C22_JwksFailureIs502 == JwksFetchFailed => resp.status = 502


-----------------------------------------------------------------------------
(* Endpoint validator: the textual form of an address *)

\* The IPv4 address embedded in an IPv4-mapped IPv6 address ::ffff:a.b.c.d,
\* None for any other address.
Embedded(address) ==
    IF startsWith(toLowerCase(address), "::ffff:") /\ isIPv4(SubSeq(address, 8, Len(address)))
    THEN SubSeq(address, 8, Len(address))
    ELSE None

\* C29: a name that resolves to an IPv4-mapped IPv6 address whose embedded
\* IPv4 address isBlockedIp blocks is Invalid: isBlockedIp blocks the mapped
\* form of every address it blocks.
C29_MappedBlockedAsEmbedded ==
    (VDone /\ VRemote /\ dnsAnswer.ok) =>
        \A i \in DOMAIN dnsAnswer.addresses :
            (/\ Embedded(dnsAnswer.addresses[i]) # None
             /\ isBlockedIp(Embedded(dnsAnswer.addresses[i])) # None)
                => ~verdict.valid


-----------------------------------------------------------------------------
(* sanitizeErrorMessage on its own *)

\* The characters of the messages: the two that make markup, and a letter.
TextChars == {"<", ">", "a"}

RECURSIVE Texts(_)
\* The strings of at most n characters.
Texts(n) ==
    IF n = 0 THEN {""}
    ELSE Texts(n - 1) \cup { s \o c : s \in Texts(n - 1), c \in TextChars }

\* Messages around the cut: one to four characters short of 500 letters,
\* with markup or none before and after them.
LongTexts ==
    { pre \o repeat("e", n) \o post :
        pre \in Texts(2), n \in 496..499, post \in {"", "a", ">", "<a>", "<a><"} }

Messages == Texts(MaxText) \cup LongTexts

\* The message has a '<' with a '>' somewhere after it: the first '<' has.
HasTag(s) ==
    LET i == IndexFrom(s, "<", 1)
    IN  i # 0 /\ IndexFrom(s, ">", i + 1) # 0

\* A provider error message is at hand.
SInit ==
    /\ RlStart
    /\ VIdle
    /\ BIdle
    /\ hpc = "idle"
    /\ req \in [handler : {"sanitize"}, input : Messages]
    /\ resp = NoResponse
    /\ trace = <<>>
    /\ work = {}
    /\ call = NoFetch

\* sanitizeErrorMessage(message) is called and returns.
Sanitize ==
    /\ hpc = "idle"
    /\ hpc' = "done"
    /\ resp' = [NoResponse EXCEPT !.message = sanitizeErrorMessage(req.input)]
    /\ UNCHANGED <<rlVars, vVars, req, trace, work, call, bVars>>

\* sanitizeErrorMessage is called on what it returned.
SanitizeAgain ==
    /\ hpc = "done"
    /\ hpc' = "again"
    /\ resp' = [resp EXCEPT !.rawResponse = sanitizeErrorMessage(resp.message)]
    /\ UNCHANGED <<rlVars, vVars, req, trace, work, call, bVars>>

SNext == Sanitize \/ SanitizeAgain

SpecS == SInit /\ [][SNext]_vars

\* C23: what sanitizeErrorMessage returns has at most 500 characters and no
\* '<' with a '>' after it, and sanitizeErrorMessage returns it unchanged.
C23_Sanitized ==
    /\ hpc \in {"done", "again"} =>
           /\ Len(resp.message) <= 500
           /\ ~HasTag(resp.message)
    /\ hpc = "again" => resp.rawResponse = resp.message

\* A message of more than 500 characters with markup in it, some of it after
\* the 500th character, has been sanitized to 500 characters, twice.
C23_Witness ==
    /\ hpc = "again"
    /\ Len(req.input) > 500
    /\ HasTag(req.input)
    /\ HasTag(SubSeq(req.input, 490, Len(req.input)))
    /\ Len(resp.message) = 500
    /\ resp.rawResponse = resp.message


-----------------------------------------------------------------------------
(* Browser: the callback page and the token exchange *)

\* The route of the server proxy.
PROXY == "/api/oauth/token"

\* The sessions a page load before the redirect to the provider has saved:
\* the state it sent, the configuration, and no code or the code of an
\* earlier run.
StoredSessions ==
    { [createSession EXCEPT
           !.state = "state-sent-to-provider",
           !.config = [tokenEndpoint |-> e, clientId |-> "client-1", clientSecret |-> s],
           !.currentStep = "authorize",
           !.authorizationCode = c] :
        e \in {"https://idp.example/token", "https://10.0.0.5/token"},
        s \in {"", "s3cret"},
        c \in {None, "code-of-an-earlier-run"} }

\* The query parameters and the hash parameters of the callback urls.
Queries ==
    [state : {None, "", "state-sent-to-provider", "state-of-someone-else"},
     code : {None, "SplxlOBeZQQYbYS6WxSbIA"},
     error : {None, "access_denied"}]

Hashes == [state : {None, "state-sent-to-provider", "state-of-someone-else"}]

\* a || b
Or(a, b) == IF Falsy(a) THEN b ELSE a

setCallbackResult(s, queryParams, hashParams, error, code) ==
    [s EXCEPT !.callbackParams = queryParams,
              !.callbackHash = hashParams,
              !.callbackError = error,
              !.authorizationCode = code]

setStep(s, step) == [s EXCEPT !.currentStep = step]

\* if (returnedState && returnedState !== session.value.state)
StateMismatch(returnedState, state) ==
    ~Falsy(returnedState) /\ returnedState # state

\* onMounted of the callback page, opened with the query and the hash.
Callback(query, hash) ==
    LET loaded == CHOOSE s \in storage : TRUE
        returnedState == Or(query.state, hash.state)
        opened(status) == [status |-> status, query |-> query, hash |-> hash]
    IN  /\ bpc = "idle"
        /\ bpc' = "callback:done"
        /\ UNCHANGED <<sent, exchange>>
        /\ UNCHANGED <<rlVars, vVars, hVars>>
        /\ IF storage = {}
           THEN /\ page' = opened("error")
                /\ UNCHANGED <<session, storage>>
           ELSE IF StateMismatch(returnedState, loaded.state)
           THEN /\ page' = opened("state_mismatch")
                /\ session' = setCallbackResult(loaded, query, hash, None, None)
                /\ storage' = {session'}
           ELSE IF ~Falsy(query.error)
           THEN /\ page' = opened("error")
                /\ session' = setStep(setCallbackResult(loaded, query, NoHash,
                                                        query.error, None),
                                      "callback")
                /\ storage' = {session'}
           ELSE /\ page' = opened("success")
                /\ session' = setStep(setCallbackResult(loaded, query, hash, None,
                                                        Or(query.code, None)),
                                      "callback")
                /\ storage' = {session'}

\* The request of the exchange to the url: the code and, where there is one,
\* the client secret.
Request(to) ==
    [to |-> to, code |-> session.authorizationCode,
     clientSecret |-> Or(session.config.clientSecret, None)]

\* exchangeCodeForTokens calls exchangeViaServer, which posts to the proxy.
ExchangeViaServer ==
    /\ bpc = "callback:done"
    /\ session.authorizationCode # None
    /\ sent' = Append(sent, Request(PROXY))
    /\ bpc' = "exchange:server"
    /\ UNCHANGED <<session, storage, page, exchange>>
    /\ UNCHANGED <<rlVars, vVars, hVars>>

\* What the post to the proxy can end with: where the app runs with its
\* server, a result of the token handler (200), its rate limit (429), its
\* rejection of the input or of the endpoint (400), or a network failure
\* (status 0); where the app is deployed as static files, 404 or a network
\* failure.
ProxyAnswers ==
    { [served |-> TRUE, status |-> 200, success |-> TRUE],
      [served |-> TRUE, status |-> 200, success |-> FALSE],
      [served |-> TRUE, status |-> 429, success |-> FALSE],
      [served |-> TRUE, status |-> 400, success |-> FALSE],
      [served |-> TRUE, status |-> 0, success |-> FALSE],
      [served |-> FALSE, status |-> 404, success |-> FALSE],
      [served |-> FALSE, status |-> 0, success |-> FALSE] }

\* $fetch rejects on a network failure and on a response that is not 2xx.
Throws(answer) == answer.status \notin 200..299

\* The post to the proxy settles: exchangeViaServer returns the result, or it
\* throws and exchangeCodeForTokens calls exchangeClientSide, which posts to
\* the token endpoint.
ProxyAnswer(answer) ==
    /\ bpc = "exchange:server"
    /\ UNCHANGED <<session, storage, page>>
    /\ UNCHANGED <<rlVars, vVars, hVars>>
    /\ IF Throws(answer)
       THEN /\ sent' = Append(sent, Request(session.config.tokenEndpoint))
            /\ bpc' = "exchange:client"
            /\ exchange' = [NoExchange EXCEPT !.served = answer.served,
                                              !.status = answer.status]
       ELSE /\ sent' = sent
            /\ bpc' = "exchange:done"
            /\ exchange' = [served |-> answer.served, status |-> answer.status,
                            exchangeMethod |-> "server", success |-> answer.success]

\* The post to the token endpoint settles and exchangeClientSide returns.
ClientAnswer(success) ==
    /\ bpc = "exchange:client"
    /\ bpc' = "exchange:done"
    /\ exchange' = [exchange EXCEPT !.exchangeMethod = "client", !.success = success]
    /\ UNCHANGED <<session, storage, page, sent>>
    /\ UNCHANGED <<rlVars, vVars, hVars>>

BInit ==
    /\ RlStart
    /\ VIdle
    /\ HIdle
    /\ bpc = "idle"
    /\ session = createSession
    /\ storage \in {{}} \cup { {s} : s \in StoredSessions }
    /\ page = [status |-> "loading", query |-> NoParams, hash |-> NoHash]
    /\ sent = <<>>
    /\ exchange = NoExchange

BNext ==
    \/ \E query \in Queries, hash \in Hashes : Callback(query, hash)
    \/ ExchangeViaServer
    \/ \E answer \in ProxyAnswers : ProxyAnswer(answer)
    \/ \E success \in BOOLEAN : ClientAnswer(success)

SpecB == BInit /\ [][BNext]_vars

\* The state the callback url returned, None where it has none.
ReturnedState == Or(page.query.state, page.hash.state)

\* C30: after the callback page has processed a callback whose state is
\* absent or is not the state of the session, session.authorizationCode is
\* null.
C30_CodeOnlyWithState ==
    (bpc # "idle" /\ storage # {} /\ ReturnedState # session.state) =>
        session.authorizationCode = None

\* C21: where the app runs with its server, whatever the post to the proxy
\* ended with, every request of the exchange that carries the code or the
\* client secret went to the proxy.
C21_ProxiedWithServer ==
    exchange.served => \A i \in DOMAIN sent : sent[i].to = PROXY

====
